---- MODULE Spec2Model ----
(***************************************************************************)
(* adf_test/src/lib.rs: the p-value lookup (interpolate_p_value) and the   *)
(* stationarity decision (get_adf_p_value_and_stationarity), as a state    *)
(* machine that walks one call statement by statement.                     *)
(*                                                                         *)
(* Numbers.  An f64 is held as an exact fraction [n, d] in lowest terms    *)
(* with d > 0; d = 0 holds the three non-finite values (+inf, -inf, NaN).  *)
(* Rounding of f64 arithmetic and the sign of zero are not modelled.       *)
(*                                                                         *)
(* Words.  usize, isize and u32 are one machine word of the wasm32 target. *)
(* The model's word is UsizeBits wide, which keeps usize::MAX and the      *)
(* sample sizes above isize::MAX within the integers of the checker;       *)
(* casts, wrapping and the overflow checks of a debug build (the input     *)
(* overflow_checks) behave on it as they do on 32 bits.                    *)
(***************************************************************************)
EXTENDS Integers, Sequences, FiniteSets

(***************************************************************************)
(* Bounds of the model.                                                    *)
(***************************************************************************)
UsizeBits == 8
MaxLen == 3
MaxKeys == 2

(***************************************************************************)
(* f64                                                                     *)
(***************************************************************************)
Abs(i) == IF i < 0 THEN -i ELSE i

Sign(i) == IF i < 0 THEN -1 ELSE IF i > 0 THEN 1 ELSE 0

RECURSIVE GCD(_, _)
GCD(a, b) == IF b = 0 THEN a ELSE GCD(b, a % b)

F(n, d) ==
    IF d = 0 THEN [n |-> Sign(n), d |-> 0]
    ELSE LET g == GCD(Abs(n), Abs(d))
         IN  [n |-> Sign(d) * (n \div g), d |-> Abs(d) \div g]

NEG_INFINITY == [n |-> -1, d |-> 0]
INFINITY == [n |-> 1, d |-> 0]
NAN == [n |-> 0, d |-> 0]

IsNaN(a) == a.d = 0 /\ a.n = 0

FEq(a, b) == ~IsNaN(a) /\ ~IsNaN(b) /\ a = b

FLt(a, b) ==
    /\ ~IsNaN(a)
    /\ ~IsNaN(b)
    /\ IF a.d = 0 /\ b.d = 0 THEN a.n < b.n ELSE a.n * b.d < b.n * a.d

FLe(a, b) == FLt(a, b) \/ FEq(a, b)
FGe(a, b) == FLe(b, a)

FAdd(a, b) ==
    IF a.d = 0 /\ b.d = 0
    THEN (IF a.n = b.n THEN a ELSE NAN)
    ELSE F(a.n * b.d + b.n * a.d, a.d * b.d)

FNeg(a) == [n |-> -a.n, d |-> a.d]
FSub(a, b) == FAdd(a, FNeg(b))
FMul(a, b) == F(a.n * b.n, a.d * b.d)

FInv(a) ==
    IF a.n > 0 THEN [n |-> a.d, d |-> a.n]
    ELSE IF a.n < 0 THEN [n |-> -a.d, d |-> -a.n]
    ELSE IF a.d > 0 THEN INFINITY ELSE NAN

FDiv(a, b) == FMul(a, FInv(b))

(***************************************************************************)
(* Values of the host (JsValue) and the js_sys calls the code makes.       *)
(* A string is its sequence of characters; an object is its properties in  *)
(* Reflect.ownKeys order.                                                  *)
(***************************************************************************)
Undefined == [t |-> "undefined"]
Null == [t |-> "null"]
Symbol == [t |-> "symbol"]
Number(v) == [t |-> "number", v |-> v]
Str(s) == [t |-> "string", s |-> s]
Arr(items) == [t |-> "array", items |-> items]
Obj(props) == [t |-> "object", props |-> props]

None == <<>>
Some(v) == <<v>>
IsSome(o) == o # <<>>
Unwrap(o) == o[1]
UnwrapOr(o, dflt) == IF IsSome(o) THEN o[1] ELSE dflt

Err == [ok |-> FALSE]
Ok(v) == [ok |-> TRUE, v |-> v]

as_f64(v) == IF v.t = "number" THEN Some(v.v) ELSE None
as_string(v) == IF v.t = "string" THEN Some(v.s) ELSE None
is_array(v) == v.t = "array"

\* Array.from: a copy of an array, the characters of a string, nothing for
\* another value, and a TypeError for undefined and null.
ArrayFrom(v) ==
    CASE v.t = "array" -> Ok(v.items)
      [] v.t = "string" -> Ok([i \in 1..Len(v.s) |-> Str(<<v.s[i]>>)])
      [] v.t \in {"undefined", "null"} -> Err
      [] OTHER -> Ok(<<>>)

\* Array.get(i): the element, or undefined past the end.
ArrayGet(items, i) == IF i < Len(items) THEN items[i + 1] ELSE Undefined

RECURSIVE Lookup(_, _)
Lookup(props, key) ==
    IF props = <<>> THEN Undefined
    ELSE IF Head(props)[1] = key THEN Head(props)[2]
    ELSE Lookup(Tail(props), key)

\* Reflect.get on a property named by a string: a TypeError (Err) when the
\* target is not an object.
ReflectGet(target, key) ==
    CASE target.t = "object" -> Ok(Lookup(target.props, Str(key)))
      [] target.t = "array" -> Ok(Undefined)
      [] OTHER -> Err

\* Reflect.ownKeys: a TypeError (Err) when the target is not an object.
ReflectOwnKeys(target) ==
    CASE target.t = "object" ->
            Ok([i \in 1..Len(target.props) |-> target.props[i][1]])
      [] OTHER -> Err

(***************************************************************************)
(* str::parse::<usize> and usize::to_string                                *)
(***************************************************************************)
USIZE_MAX == 2 ^ UsizeBits - 1
ISIZE_MIN == -(2 ^ (UsizeBits - 1))
ISIZE_MAX == 2 ^ (UsizeBits - 1) - 1

Digits == <<"0", "1", "2", "3", "4", "5", "6", "7", "8", "9">>
IsDigit(c) == \E i \in 1..10 : Digits[i] = c
DigitVal(c) == (CHOOSE i \in 1..10 : Digits[i] = c) - 1

\* The digits of s, most significant first, added up to acc; None on a
\* character that is no digit and on a value past usize::MAX.
RECURSIVE ParseDigits(_, _)
ParseDigits(s, acc) ==
    IF s = <<>> THEN Some(acc)
    ELSE IF ~IsDigit(Head(s)) THEN None
    ELSE LET v == acc * 10 + DigitVal(Head(s))
         IN  IF v > USIZE_MAX THEN None ELSE ParseDigits(Tail(s), v)

\* str::parse::<usize>: an optional "+", then one digit or more, no more than
\* usize::MAX.
ParseUsize(s) ==
    LET body == IF s # <<>> /\ Head(s) = "+" THEN Tail(s) ELSE s
    IN  IF body = <<>> THEN None ELSE ParseDigits(body, 0)

RECURSIVE to_string(_)
to_string(n) ==
    IF n < 10 THEN <<Digits[n + 1]>>
    ELSE Append(to_string(n \div 10), Digits[(n % 10) + 1])

\* Casts between usize and isize keep the bits of the word.
WrapIsize(v) == ((v - ISIZE_MIN) % (2 ^ UsizeBits)) + ISIZE_MIN
as_isize(u) == WrapIsize(u)
as_usize(s) == s % (2 ^ UsizeBits)

\* isize arithmetic: [ok |-> FALSE] is the overflow panic of a build with
\* overflow checks; a build without them wraps.
IsizeOp(v, checks) ==
    IF v < ISIZE_MIN \/ v > ISIZE_MAX
    THEN (IF checks THEN Err ELSE Ok(WrapIsize(v)))
    ELSE Ok(v)

isize_sub(a, b, checks) == IsizeOp(a - b, checks)
isize_abs(a, checks) == IsizeOp(Abs(a), checks)

(***************************************************************************)
(* interpolate_p_value.  Its locals are the record                         *)
(*   [pc, low, high, idx, p_value, fault]                                  *)
(* pc: "search" in the loop, "returned" with p_value set, "aborted" on the *)
(* panic of an unwrap, on an overflow check or on the host's TypeError.    *)
(***************************************************************************)
ONE == F(1, 1)
ZERO == F(0, 1)

Returned(p) ==
    [pc |-> "returned", low |-> 0, high |-> 0, idx |-> 0, p_value |-> p,
     fault |-> "none"]

Aborted(at, why) ==
    [pc |-> "aborted", low |-> at.low, high |-> at.high, idx |-> at.idx,
     p_value |-> NAN, fault |-> why]

NoLocals == [low |-> 0, high |-> 0, idx |-> 0]

\* js_sys::Array::from(&table.get(i)), then Reflect::get(.., k).unwrap(): field
\* k (0: statistic, 1: p-value) of entry i.  Reflect.get on the array that
\* Array.from made never throws; Array.from itself throws (Err) on an entry
\* that is undefined or null.
EntryField(items, i, k) ==
    LET a == ArrayFrom(ArrayGet(items, i))
    IN  IF a.ok THEN Ok(ArrayGet(a.v, k)) ELSE Err

\* The slip of a strict comparison in the left clamp.
ClampsLeftStrict(x, first_stat) == FLt(x, first_stat)

\* Line 37: the left clamp applies.
ClampsLeft(x, first_stat) == FLe(x, first_stat)

\* Line 46: the right clamp applies.
ClampsRight(x, last_stat) == FGe(x, last_stat)

\* Lines 22-52: the fallbacks, the two clamps and the start of the search.
InterpEnter(x, js) ==
    IF ~is_array(js) THEN Returned(ONE)
    ELSE IF Len(js.items) = 0 THEN Returned(ONE)
    ELSE
      LET items == js.items
          fs == EntryField(items, 0, 0)
          fp == EntryField(items, 0, 1)
          ls == EntryField(items, Len(items) - 1, 0)
          lp == EntryField(items, Len(items) - 1, 1)
      IN  IF ~fs.ok THEN Aborted(NoLocals, "exception")
          ELSE IF ClampsLeft(x, UnwrapOr(as_f64(fs.v), NEG_INFINITY))
          THEN Returned(UnwrapOr(as_f64(fp.v), ONE))
          ELSE IF ~ls.ok THEN Aborted(NoLocals, "exception")
          ELSE IF ClampsRight(x, UnwrapOr(as_f64(ls.v), INFINITY))
          THEN Returned(UnwrapOr(as_f64(lp.v), ZERO))
          ELSE [pc |-> "search", low |-> 0, high |-> Len(items) - 1,
                idx |-> 0, p_value |-> NAN, fault |-> "none"]

\* u32 subtraction of line 67: the overflow panic, or the wrapped word.
u32_sub(a, b, checks) ==
    IF a - b < 0
    THEN (IF checks THEN Err ELSE Ok((a - b) % (2 ^ UsizeBits)))
    ELSE Ok(a - b)

\* The slip of leaving idx as it was.
NarrowUpStaleIdx(st, mid) == [st EXCEPT !.low = mid + 1]

\* The slip of low = mid, which narrows nothing once mid = low.
NarrowUpNoProgress(st, mid) == [st EXCEPT !.idx = mid, !.low = mid]

\* Lines 64-65.
NarrowUp(st, mid) == [st EXCEPT !.idx = mid, !.low = mid + 1]

\* Lines 56-68: one pass of the loop body, entered with low <= high.
SearchBody(x, items, st, checks) ==
    LET mid == st.low + (st.high - st.low) \div 2
        ms == EntryField(items, mid, 0)
        mp == EntryField(items, mid, 1)
    IN  IF ~ms.ok THEN Aborted(st, "exception")
        ELSE IF ~IsSome(as_f64(ms.v)) THEN Aborted(st, "unwrap")
        ELSE
          LET mid_stat == Unwrap(as_f64(ms.v))
          IN  IF FEq(mid_stat, x)
              THEN (IF IsSome(as_f64(mp.v))
                    THEN Returned(Unwrap(as_f64(mp.v)))
                    ELSE Aborted(st, "unwrap"))
              ELSE IF FLt(mid_stat, x)
              THEN NarrowUp(st, mid)
              ELSE LET h == u32_sub(mid, 1, checks)
                   IN  IF h.ok THEN [st EXCEPT !.high = h.v]
                       ELSE Aborted(st, "overflow")

\* The slip of y1 - y2 for y2 - y1.
LinearInterpolationSwapped(x, x1, y1, x2, y2) ==
    FAdd(y1, FDiv(FMul(FSub(x, x1), FSub(y1, y2)), FSub(x2, x1)))

\* Line 82.
LinearInterpolation(x, x1, y1, x2, y2) ==
    FAdd(y1, FDiv(FMul(FSub(x, x1), FSub(y2, y1)), FSub(x2, x1)))

\* Lines 71-82, entered with low > high.
InterpolateBody(x, items, st) ==
    LET x1 == EntryField(items, st.idx, 0)
        y1 == EntryField(items, st.idx, 1)
        x2 == EntryField(items, st.idx + 1, 0)
        y2 == EntryField(items, st.idx + 1, 1)
    IN  IF ~x1.ok THEN Aborted(st, "exception")
        ELSE IF ~IsSome(as_f64(x1.v)) \/ ~IsSome(as_f64(y1.v))
        THEN Aborted(st, "unwrap")
        ELSE IF ~x2.ok THEN Aborted(st, "exception")
        ELSE IF ~IsSome(as_f64(x2.v)) \/ ~IsSome(as_f64(y2.v))
        THEN Aborted(st, "unwrap")
        ELSE [st EXCEPT
                !.pc = "returned",
                !.p_value = LinearInterpolation(x, Unwrap(as_f64(x1.v)),
                                Unwrap(as_f64(y1.v)), Unwrap(as_f64(x2.v)),
                                Unwrap(as_f64(y2.v)))]

\* The whole function: the body run from st until it returns or aborts.
RECURSIVE RunSearch(_, _, _, _)
RunSearch(x, items, st, checks) ==
    IF st.pc # "search" THEN st
    ELSE IF st.low <= st.high
    THEN RunSearch(x, items, SearchBody(x, items, st, checks), checks)
    ELSE InterpolateBody(x, items, st)

interpolate_p_value(x, js, checks) ==
    LET st == InterpEnter(x, js)
    IN  IF st.pc = "search" THEN RunSearch(x, js.items, st, checks) ELSE st

(***************************************************************************)
(* get_adf_p_value_and_stationarity                                        *)
(***************************************************************************)
DEFAULT_1_PERCENT == F(-343, 100)
DEFAULT_5_PERCENT == F(-286, 100)
DEFAULT_10_PERCENT == F(-257, 100)
P_THRESHOLD == F(5, 100)

\* Lines 97-106: the loop body for one key; [ok |-> FALSE] is an overflow panic.
ScanBody(key_js, n, closest, min, checks) ==
    LET key_str == as_string(key_js)
        n_val == IF IsSome(key_str) THEN ParseUsize(Unwrap(key_str)) ELSE None
    IN  IF ~IsSome(n_val) THEN [ok |-> TRUE, closest_n |-> closest, min_diff |-> min]
        ELSE
          LET d == isize_sub(as_isize(n), as_isize(Unwrap(n_val)), checks)
              a == IF d.ok THEN isize_abs(d.v, checks) ELSE Err
          IN  IF ~a.ok THEN [ok |-> FALSE, closest_n |-> closest, min_diff |-> min]
              ELSE IF as_usize(a.v) < min
              THEN [ok |-> TRUE, closest_n |-> Unwrap(n_val),
                    min_diff |-> as_usize(a.v)]
              ELSE [ok |-> TRUE, closest_n |-> closest, min_diff |-> min]

\* Lines 109-113 and 123-127: the value under the selected key, or null when
\* no key was selected or the host throws.
FetchSelected(map_js, closest) ==
    IF closest > 0
    THEN LET r == ReflectGet(map_js, to_string(closest))
         IN  IF r.ok THEN r.v ELSE Null
    ELSE Null

\* Lines 118-120: Reflect::get(..).unwrap().as_f64().unwrap_or(dflt).
CriticalField(data_js, label, dflt) ==
    LET r == ReflectGet(data_js, label)
    IN  IF r.ok THEN Ok(UnwrapOr(as_f64(r.v), dflt)) ELSE Err

\* The slip of "or" for "and".
IsStationaryEither(p, statistic, critical_5_percent) ==
    FLe(p, P_THRESHOLD) \/ FLt(statistic, critical_5_percent)

\* Line 133.
IsStationary(p, statistic, critical_5_percent) ==
    FLe(p, P_THRESHOLD) /\ FLt(statistic, critical_5_percent)

NoCritical ==
    [critical_1_percent |-> NAN, critical_5_percent |-> NAN,
     critical_10_percent |-> NAN]

(***************************************************************************)
(* The inputs of a call                                                    *)
(***************************************************************************)
StatVals == {F(-4, 1), F(-3, 1), F(-2, 1)}
PVals == {F(1, 100), F(1, 20), F(1, 2)}
NotANumber == Str(<<"x">>)

\* The entries of a table: the pairs of numbers, a pair with a statistic that
\* is no number, a pair with a p-value that is no number, and null.
Entries ==
    {Arr(<<Number(s), Number(p)>>) : s \in StatVals, p \in PVals}
      \cup {Arr(<<NotANumber, Number(F(1, 20))>>),
            Arr(<<Number(F(-3, 1)), NotANumber>>),
            Null}

LookupInputs ==
    {Arr(t) : t \in UNION {[1..k -> Entries] : k \in 0..MaxLen}}
      \cup {Undefined, Null}

XVals ==
    StatVals \cup {F(-5, 1), F(-7, 2), F(-5, 2), F(-1, 1),
                   NAN, INFINITY, NEG_INFINITY}

Entry(s, p) == Arr(<<Number(s), Number(p)>>)

DecideTables ==
    {Arr(<<Entry(F(-4, 1), F(1, 100)), Entry(F(-2, 1), F(1, 20))>>),
     Arr(<<Entry(F(-4, 1), F(1, 2))>>)}

PTableKeys == <<Str(<<"2", "5">>), Str(<<"5", "0">>)>>

\* The objects with a table, or nothing, under each key of PTableKeys.
RECURSIVE PTableProps(_)
PTableProps(ks) ==
    IF ks = <<>> THEN {<<>>}
    ELSE LET rest == PTableProps(Tail(ks))
         IN  rest \cup {<<<<Head(ks), t>>>> \o r : t \in DecideTables, r \in rest}

PTableInputs == {Obj(ps) : ps \in PTableProps(PTableKeys)} \cup {Null}

KeyPool ==
    {Str(<<"2", "5">>), Str(<<"5", "0">>), Str(<<"1", "0", "0">>),
     Str(<<"0">>), Str(<<"0", "5", "0">>), Str(<<"x">>), Symbol}

RecordPool ==
    {Obj(<<<<Str(<<"1", "%">>), Number(F(-358, 100))>>,
           <<Str(<<"5", "%">>), Number(F(-293, 100))>>,
           <<Str(<<"1", "0", "%">>), Number(F(-260, 100))>>>>),
     Obj(<<<<Str(<<"1", "%">>), Number(F(-375, 100))>>,
           <<Str(<<"5", "%">>), NotANumber>>>>)}

\* Reflect.ownKeys lists the array indices (the canonical decimal strings,
\* all of which are below 2^32 - 1 in KeyPool) in ascending order, then the
\* other strings, then the symbols.
RECURSIVE DecimalValue(_, _)
DecimalValue(s, acc) ==
    IF s = <<>> THEN acc ELSE DecimalValue(Tail(s), acc * 10 + DigitVal(Head(s)))

IsIndexKey(k) ==
    /\ k.t = "string"
    /\ k.s # <<>>
    /\ \A j \in 1..Len(k.s) : IsDigit(k.s[j])
    /\ (Len(k.s) = 1 \/ k.s[1] # "0")

KeyRank(k) == IF IsIndexKey(k) THEN 0 ELSE IF k.t = "string" THEN 1 ELSE 2

IsOwnKeysOrder(ks) ==
    \A a, b \in 1..Len(ks) :
        a < b =>
          /\ ks[a] # ks[b]
          /\ KeyRank(ks[a]) <= KeyRank(ks[b])
          /\ (IsIndexKey(ks[a]) /\ IsIndexKey(ks[b]) =>
                DecimalValue(ks[a].s, 0) < DecimalValue(ks[b].s, 0))

CriticalInputs ==
    {Obj(ps) : ps \in {q \in UNION {[1..k -> KeyPool \X RecordPool] : k \in 0..MaxKeys} :
                          IsOwnKeysOrder([j \in 1..Len(q) |-> q[j][1]])}}
      \cup {Null}

SampleSizes == {37, 60, 75, USIZE_MAX - 55, USIZE_MAX}
Statistics == {F(-3, 1), F(-286, 100), F(-2, 1)}

(***************************************************************************)
(* The call as a state machine                                             *)
(***************************************************************************)
VARIABLES
    test_statistic, sample_size, critical_values_js, p_value_tables_js,
    overflow_checks,
    pc, fault,
    keys, i, closest_n, min_diff,
    critical_values, p_values_lookup_js,
    low, high, idx, p_value,
    result

inputs ==
    <<test_statistic, sample_size, critical_values_js, p_value_tables_js,
      overflow_checks>>
scan == <<keys, i, closest_n, min_diff>>
search == <<low, high, idx>>
vars ==
    <<inputs, pc, fault, scan, critical_values, p_values_lookup_js, search,
      p_value, result>>

locals == [pc |-> pc, low |-> low, high |-> high, idx |-> idx,
           p_value |-> p_value, fault |-> fault]

SetLocals(st) ==
    /\ pc' = st.pc
    /\ low' = st.low
    /\ high' = st.high
    /\ idx' = st.idx
    /\ p_value' = st.p_value
    /\ fault' = st.fault

\* Line 86: the state when the call is entered.
Init ==
    /\ test_statistic \in Statistics
    /\ sample_size \in SampleSizes
    /\ critical_values_js \in CriticalInputs
    /\ p_value_tables_js \in PTableInputs
    /\ overflow_checks \in BOOLEAN
    /\ pc = "entry"
    /\ fault = "none"
    /\ keys = <<>>
    /\ i = 0
    /\ closest_n = 0
    /\ min_diff = 0
    /\ critical_values = NoCritical
    /\ p_values_lookup_js = Undefined
    /\ low = 0
    /\ high = 0
    /\ idx = 0
    /\ p_value = NAN
    /\ result = None

\* Lines 87-93.
Enter ==
    /\ pc = "entry"
    /\ LET r == ReflectOwnKeys(critical_values_js)
       IN  /\ pc' = IF r.ok THEN "scan" ELSE "aborted"
           /\ fault' = IF r.ok THEN "none" ELSE "unwrap"
           /\ keys' = IF r.ok THEN r.v ELSE <<>>
    /\ i' = 0
    /\ closest_n' = 0
    /\ min_diff' = USIZE_MAX
    /\ UNCHANGED <<inputs, critical_values, p_values_lookup_js, search,
                   p_value, result>>

\* Lines 96-107: one pass of the loop over the keys.
ScanKey ==
    /\ pc = "scan"
    /\ i < Len(keys)
    /\ LET r == ScanBody(keys[i + 1], sample_size, closest_n, min_diff,
                         overflow_checks)
       IN  /\ pc' = IF r.ok THEN "scan" ELSE "aborted"
           /\ fault' = IF r.ok THEN "none" ELSE "overflow"
           /\ closest_n' = r.closest_n
           /\ min_diff' = r.min_diff
    /\ i' = i + 1
    /\ UNCHANGED <<inputs, keys, critical_values, p_values_lookup_js, search,
                   p_value, result>>

\* Lines 109-127, after the loop.
FetchTables ==
    /\ pc = "scan"
    /\ i = Len(keys)
    /\ LET data == FetchSelected(critical_values_js, closest_n)
           c1 == CriticalField(data, <<"1", "%">>, DEFAULT_1_PERCENT)
           c5 == CriticalField(data, <<"5", "%">>, DEFAULT_5_PERCENT)
           c10 == CriticalField(data, <<"1", "0", "%">>, DEFAULT_10_PERCENT)
           ok == c1.ok /\ c5.ok /\ c10.ok
       IN  /\ pc' = IF ok THEN "interp" ELSE "aborted"
           /\ fault' = IF ok THEN "none" ELSE "unwrap"
           /\ critical_values' =
                IF ok THEN [critical_1_percent |-> c1.v,
                            critical_5_percent |-> c5.v,
                            critical_10_percent |-> c10.v]
                ELSE critical_values
           /\ p_values_lookup_js' =
                IF ok THEN FetchSelected(p_value_tables_js, closest_n)
                ELSE p_values_lookup_js
    /\ UNCHANGED <<inputs, scan, search, p_value, result>>

\* Line 129 into lines 22-52.
InterpEntry ==
    /\ pc = "interp"
    /\ SetLocals(InterpEnter(test_statistic, p_values_lookup_js))
    /\ UNCHANGED <<inputs, scan, critical_values, p_values_lookup_js, result>>

\* Lines 55-69: one pass of the binary search.
SearchStep ==
    /\ pc = "search"
    /\ low <= high
    /\ SetLocals(SearchBody(test_statistic, p_values_lookup_js.items, locals,
                            overflow_checks))
    /\ UNCHANGED <<inputs, scan, critical_values, p_values_lookup_js, result>>

\* Lines 71-82, once the loop has ended.
Interpolate ==
    /\ pc = "search"
    /\ low > high
    /\ SetLocals(InterpolateBody(test_statistic, p_values_lookup_js.items, locals))
    /\ UNCHANGED <<inputs, scan, critical_values, p_values_lookup_js, result>>

\* Lines 131-146.
Verdict ==
    /\ pc = "returned"
    /\ pc' = "done"
    /\ result' = Some([statistic |-> test_statistic,
                       p_value |-> p_value,
                       critical_values |-> critical_values,
                       is_stationary |->
                          IsStationary(p_value, test_statistic,
                                       critical_values.critical_5_percent)])
    /\ UNCHANGED <<inputs, fault, scan, critical_values, p_values_lookup_js,
                   search, p_value>>

Next ==
    \/ Enter
    \/ ScanKey
    \/ FetchTables
    \/ InterpEntry
    \/ SearchStep
    \/ Interpolate
    \/ Verdict

Spec == Init /\ [][Next]_vars

(***************************************************************************)
(* interpolate_p_value alone, on every table of the bounds.                *)
(***************************************************************************)
InitInterp ==
    /\ test_statistic \in XVals
    /\ p_values_lookup_js \in LookupInputs
    /\ overflow_checks \in BOOLEAN
    /\ sample_size = 0
    /\ critical_values_js = Null
    /\ p_value_tables_js = Null
    /\ pc = "interp"
    /\ fault = "none"
    /\ keys = <<>>
    /\ i = 0
    /\ closest_n = 0
    /\ min_diff = 0
    /\ critical_values = NoCritical
    /\ low = 0
    /\ high = 0
    /\ idx = 0
    /\ p_value = NAN
    /\ result = None

NextInterp ==
    \/ InterpEntry
    \/ SearchStep
    \/ Interpolate

SpecInterp == InitInterp /\ [][NextInterp]_vars

(***************************************************************************)
(* What the properties below say about the table of a lookup               *)
(***************************************************************************)
x == test_statistic
table == IF is_array(p_values_lookup_js) THEN p_values_lookup_js.items ELSE <<>>
len == Len(table)

IsPair(e) == e.t = "array" /\ Len(e.items) = 2
IsNumericEntry(e) ==
    IsPair(e) /\ e.items[1].t = "number" /\ e.items[2].t = "number"

\* The statistic and the p-value of entry j, counted from 0.
StatAt(j) == table[j + 1].items[1].v
PAt(j) == table[j + 1].items[2].v

IsNumericTable ==
    is_array(p_values_lookup_js) /\ \A j \in 1..len : IsNumericEntry(table[j])
SortedAscending ==
    \A a, b \in 0..(len - 1) : a < b => FLe(StatAt(a), StatAt(b))
StrictlySorted ==
    \A a, b \in 0..(len - 1) : a < b => FLt(StatAt(a), StatAt(b))
Interior == FLt(StatAt(0), x) /\ FLt(x, StatAt(len - 1))

(***************************************************************************)
(* C3.  On a strictly sorted table of two entries or more and a query      *)
(* strictly inside it, the lookup returns the value of the piecewise       *)
(* linear function through the table's points: the search ends with idx    *)
(* the one index with table[idx].statistic <= x < table[idx+1].statistic;  *)
(* between two adjacent points the result r lies on their line,            *)
(* (r - y1)(x2 - x1) = (x - x1)(y2 - y1), which at the midpoint is         *)
(* (y1 + y2)/2; on a point of the table it is that point's p-value.        *)
(***************************************************************************)
C3_Pre == IsNumericTable /\ len >= 2 /\ StrictlySorted /\ Interior

OnLine(r, j) ==
    FMul(FSub(r, PAt(j)), FSub(StatAt(j + 1), StatAt(j)))
      = FMul(FSub(x, StatAt(j)), FSub(PAt(j + 1), PAt(j)))

\* C3: the lookup inside a strictly sorted table is piecewise linear.
C3_PiecewiseLinear ==
    C3_Pre =>
      /\ pc # "aborted"
      /\ (pc = "search" /\ low > high =>
            /\ idx + 1 <= len - 1
            /\ FLe(StatAt(idx), x)
            /\ FLt(x, StatAt(idx + 1))
            /\ \A j \in 0..(len - 2) :
                 FLe(StatAt(j), x) /\ FLt(x, StatAt(j + 1)) => j = idx)
      /\ (pc = "returned" =>
            \A j \in 0..(len - 2) :
              /\ (FEq(StatAt(j), x) => p_value = PAt(j))
              /\ (FLt(StatAt(j), x) /\ FLt(x, StatAt(j + 1)) =>
                    /\ OnLine(p_value, j)
                    /\ (FAdd(x, x) = FAdd(StatAt(j), StatAt(j + 1)) =>
                          FAdd(p_value, p_value) = FAdd(PAt(j), PAt(j + 1)))))

\* A midpoint query that returned a value strictly between two different
\* p-values of a three-entry table.
C3_Witness ==
    /\ C3_Pre
    /\ len = 3
    /\ pc = "returned"
    /\ x = F(-7, 2)
    /\ PAt(0) # PAt(1)
    /\ FAdd(p_value, p_value) = FAdd(PAt(0), PAt(1))
    /\ p_value # PAt(0)

(***************************************************************************)
(* C4.  Clamping, as claimed: on a non-empty table sorted ascending        *)
(* (duplicate statistics allowed), a query at or below the first statistic *)
(* returns the first p-value and a query at or above the last statistic    *)
(* returns the last p-value.                                               *)
(***************************************************************************)
C4_Pre == IsNumericTable /\ len >= 1 /\ SortedAscending /\ pc # "interp"

C4_ClampBothSides ==
    C4_Pre =>
      /\ (FLe(x, StatAt(0)) => pc = "returned" /\ p_value = PAt(0))
      /\ (FGe(x, StatAt(len - 1)) => pc = "returned" /\ p_value = PAt(len - 1))

(***************************************************************************)
(* C4 as amended: the left clamp is tested first, so the last p-value is   *)
(* returned for a query at or above the last statistic that is also above  *)
(* the first statistic.                                                    *)
(***************************************************************************)
C4_ClampLeftFirst ==
    C4_Pre =>
      /\ (FLe(x, StatAt(0)) => pc = "returned" /\ p_value = PAt(0))
      /\ (FGe(x, StatAt(len - 1)) /\ ~FLe(x, StatAt(0)) =>
            pc = "returned" /\ p_value = PAt(len - 1))

\* A right clamp that returned a p-value other than the first one.
C4_Witness ==
    /\ C4_Pre
    /\ len >= 2
    /\ FGe(x, StatAt(len - 1))
    /\ ~FLe(x, StatAt(0))
    /\ pc = "returned"
    /\ p_value = PAt(len - 1)
    /\ PAt(len - 1) # PAt(0)

(***************************************************************************)
(* C7 (lemma).  Whatever the table, sorted or not, the pair the            *)
(* interpolation step reads never has x1 = x2: the search leaves           *)
(* table[idx].statistic < x and has seen table[idx+1].statistic > x.       *)
(***************************************************************************)
DegenerateIntervalUnreachable ==
    pc = "search" /\ low > high /\ idx + 1 <= len - 1
      /\ IsNumericEntry(table[idx + 1]) /\ IsNumericEntry(table[idx + 2])
      => /\ FLt(StatAt(idx), x)
         /\ FLt(x, StatAt(idx + 1))

(***************************************************************************)
(* C8.  Fail closed, as claimed: on a non-empty table whose entries are    *)
(* pairs, one of them at least with a field that is no number, the lookup  *)
(* of a query that is a number never aborts.                               *)
(***************************************************************************)
HasMalformedEntry ==
    /\ is_array(p_values_lookup_js)
    /\ len >= 1
    /\ \A j \in 1..len : IsPair(table[j])
    /\ \E j \in 1..len : ~IsNumericEntry(table[j])

\* C8: a table with a malformed entry never aborts the lookup.
C8_FailClosed == HasMalformedEntry /\ ~IsNaN(x) => pc # "aborted"

(***************************************************************************)
(* C9.  Monotonicity: on a non-empty strictly sorted table whose p-values  *)
(* do not increase along the table, the lookup of x returns, and so does   *)
(* the lookup of every x' >= x, with a p-value no greater than that of x.  *)
(***************************************************************************)
NonIncreasingP ==
    \A a, b \in 0..(len - 1) : a < b => FGe(PAt(a), PAt(b))

C9_Pre == IsNumericTable /\ len >= 1 /\ StrictlySorted /\ NonIncreasingP

\* C9: a later query never returns a greater p-value.
C9_Monotone ==
    C9_Pre /\ ~IsNaN(x) =>
      /\ pc # "aborted"
      /\ (pc = "returned" =>
            \A x2 \in XVals :
              FLe(x, x2) =>
                LET r == interpolate_p_value(x2, p_values_lookup_js,
                                             overflow_checks)
                IN  r.pc = "returned" /\ FGe(p_value, r.p_value))

\* An interpolated value strictly between the p-values of a table that
\* decreases, with a later query that returns less.
C9_Witness ==
    /\ C9_Pre
    /\ len = 3
    /\ pc = "returned"
    /\ x = F(-5, 2)
    /\ FLt(p_value, PAt(1))
    /\ FLt(PAt(2), p_value)
    /\ interpolate_p_value(F(-2, 1), p_values_lookup_js,
                           overflow_checks).p_value = PAt(2)

(***************************************************************************)
(* C10.  Index safety of the search: on a table sorted ascending and a     *)
(* query strictly inside it, each pass reads mid within 0..len-1, never    *)
(* takes high = mid - 1 at mid = 0, and narrows high - low, so that the    *)
(* loop ends; when it ends without an exact match, idx + 1 <= len - 1.     *)
(***************************************************************************)
C10_Pre == IsNumericTable /\ len >= 1 /\ SortedAscending /\ Interior

Mid == low + (high - low) \div 2

C10_InLoop ==
    C10_Pre /\ pc = "search" =>
      /\ low >= 0
      /\ high <= len - 1
      /\ (low <= high =>
            /\ Mid \in 0..(len - 1)
            /\ (Mid = 0 => FLe(StatAt(Mid), x)))
      /\ (low > high => idx >= 0 /\ idx + 1 <= len - 1)

\* The pass about to run from this state neither aborts nor leaves the
\* interval as wide as it was.
C10_Narrows ==
    C10_Pre /\ pc = "search" /\ low <= high =>
      LET st == SearchBody(x, table, locals, overflow_checks)
      IN  /\ st.pc # "aborted"
          /\ (st.pc = "search" =>
                /\ st.high - st.low < high - low
                /\ st.high - st.low >= -1)

\* C10: every pass of the search is within the table and narrows it.
C10_IndexSafety == C10_InLoop /\ C10_Narrows

\* A search that took both branches and ended between two entries.
C10_Witness ==
    /\ C10_Pre
    /\ len = 3
    /\ pc = "search"
    /\ low > high
    /\ idx = 1
    /\ high = 1

(***************************************************************************)
(* What the properties below say about the keys of a decision              *)
(***************************************************************************)
IsParsable(k) == k.t = "string" /\ IsSome(ParseUsize(k.s))
KeyValue(k) == Unwrap(ParseUsize(k.s))

\* A key that reads as a positive integer in its decimal notation.
IsPositiveIntegerKey(k) ==
    IsParsable(k) /\ KeyValue(k) > 0 /\ to_string(KeyValue(k)) = k.s

Distance(k) == Abs(sample_size - KeyValue(k))

ScanEnded == pc \in {"interp", "search", "returned", "done"}
CallEnded == pc \in {"done", "aborted"}

\* The key both fetches of lines 110 and 124 name.
SelectedKey == Str(to_string(closest_n))

(***************************************************************************)
(* C1.  A call that returns echoes the statistic, and is_stationary is     *)
(* true exactly when the returned p_value is <= 0.05 and the statistic is  *)
(* strictly below the returned 5% critical value.                          *)
(***************************************************************************)
C1_StationarityRule ==
    pc = "done" =>
      LET r == Unwrap(result)
      IN  /\ r.statistic = test_statistic
          /\ r.p_value = p_value
          /\ r.is_stationary =
               (FLe(r.p_value, F(5, 100))
                  /\ FLt(test_statistic, r.critical_values.critical_5_percent))

\* A low p-value alone: p_value <= 0.05, the statistic not below the
\* critical value, and the verdict false.
C1_Witness ==
    /\ pc = "done"
    /\ FLe(Unwrap(result).p_value, F(5, 100))
    /\ ~FLt(test_statistic, Unwrap(result).critical_values.critical_5_percent)
    /\ ~Unwrap(result).is_stationary

(***************************************************************************)
(* C2.  Nearest sample size, as claimed: when the keys that parse are      *)
(* positive integers and there is one at least, the key the fetches name   *)
(* is a key of critical_tables that parses, at the least distance          *)
(* |sample_size - k| of all the keys that parse, and the first such key in *)
(* enumeration order.                                                      *)
(***************************************************************************)
C2_Pre ==
    /\ ScanEnded
    /\ \E j \in 1..Len(keys) : IsParsable(keys[j])
    /\ \A j \in 1..Len(keys) : IsParsable(keys[j]) => IsPositiveIntegerKey(keys[j])

IsNearestFirst(j) ==
    /\ IsParsable(keys[j])
    /\ \A m \in 1..Len(keys) :
         IsParsable(keys[m]) =>
           /\ Distance(keys[j]) <= Distance(keys[m])
           /\ (m < j => Distance(keys[j]) < Distance(keys[m]))

\* C2: the selected key is the nearest, and the first of the nearest.
C2_NearestSampleSize ==
    C2_Pre => \E j \in 1..Len(keys) : keys[j] = SelectedKey /\ IsNearestFirst(j)

\* The same for the sample sizes that isize holds: there the claim is met.
NearestWithinIsize == sample_size <= ISIZE_MAX => C2_NearestSampleSize

(***************************************************************************)
(* C5.  Critical values, as claimed: a call on a critical_tables object    *)
(* returns; each returned critical value is the number under its label in  *)
(* the record of the selected key, or else its default; with no key        *)
(* selected all three are the defaults.                                    *)
(***************************************************************************)
FieldOr(data, label, dflt) ==
    IF data.t = "object" THEN UnwrapOr(as_f64(Lookup(data.props, Str(label))), dflt)
    ELSE dflt

SelectedRecord ==
    IF closest_n > 0 THEN Lookup(critical_values_js.props, SelectedKey) ELSE Null

\* C5: the critical values are the record's numbers or the defaults.
C5_CriticalFallback ==
    critical_values_js.t = "object" /\ CallEnded /\ fault # "overflow" =>
      /\ pc = "done"
      /\ Unwrap(result).critical_values =
           [critical_1_percent |->
               FieldOr(SelectedRecord, <<"1", "%">>, F(-343, 100)),
            critical_5_percent |->
               FieldOr(SelectedRecord, <<"5", "%">>, F(-286, 100)),
            critical_10_percent |->
               FieldOr(SelectedRecord, <<"1", "0", "%">>, F(-257, 100))]

(***************************************************************************)
(* C6.  Empty-table fallback, as claimed: the lookup of an empty table or  *)
(* of a value that is no array is 1.0 for every x; and a call with no      *)
(* table under the selected key, or with no key selected, returns p_value  *)
(* 1.0 and is_stationary false.                                            *)
(***************************************************************************)
NoTableSelected ==
    \/ closest_n = 0
    \/ p_value_tables_js.t # "object"
    \/ ~is_array(Lookup(p_value_tables_js.props, SelectedKey))

\* C6: no table means p_value 1.0 and is_stationary false.
C6_EmptyTableFallback ==
    /\ \A v \in XVals, t \in {Arr(<<>>), Undefined, Null, Number(ONE)} :
         interpolate_p_value(v, t, overflow_checks) = Returned(ONE)
    /\ (critical_values_js.t = "object" /\ CallEnded /\ fault # "overflow"
          /\ NoTableSelected =>
            /\ pc = "done"
            /\ Unwrap(result).p_value = ONE
            /\ ~Unwrap(result).is_stationary)

====
